---- MODULE Spec2Model ----
(***************************************************************************)
(* Model of gammapy/analysis/config.py: the validated nested configuration *)
(* schema (pydantic models with validate_all, validate_assignment and      *)
(* extra = "forbid"), its YAML (de)serialisation, the deep-merge update,   *)
(* the write guard, the documentation lookup and set_logging.              *)
(*                                                                         *)
(* Python values are tagged tuples of strings:                             *)
(*   <<"None">>  <<"str", s>>  <<"int", s>>  <<"bool", s>>  <<"Path", s>>  *)
(*   <<"list", <<v1, ..., vn>>>>   <<"dict", [key |-> value]>>             *)
(*   <<"Quantity", value, unit>>  <<"Angle", value, unit>>                 *)
(*   <<"Time", value>>  <<"Enum", class, value>>                           *)
(*   <<"model", class, [field |-> value]>>                                 *)
(***************************************************************************)
EXTENDS Integers, Sequences, FiniteSets, TLC

VARIABLES defaults, base, result, nassign, fs, docs, stdout, logroot

vars == <<defaults, base, result, nassign, fs, docs, stdout, logroot>>

----------------------------------------------------------------------------
(* Python values *)

None == <<"None">>
PyStr(s) == <<"str", s>>
PyInt(s) == <<"int", s>>
PyBool(s) == <<"bool", s>>
PyPath(s) == <<"Path", s>>
PyList(q) == <<"list", q>>
PyDict(f) == <<"dict", f>>
EmptyMap == [k \in {} |-> None]

\* f itself, with its values computed once
Strict(f) == f @@ EmptyMap

\* Op(e), with e computed once
With(e, Op(_)) == CHOOSE r \in {Op(x) : x \in {e}} : TRUE

Tag(v) == v[1]

Ok(v) == <<"ok", v>>
Err(e) == <<"err", e>>
IsOk(r) == r[1] = "ok"

----------------------------------------------------------------------------
(* astropy literals: "<number> <unit>" *)

\* float(text) rendered by str(): the text of Quantity.value in an f-string
FloatRepr ==
    ("5" :> "5.0") @@ ("5.0" :> "5.0") @@ ("0.1" :> "0.1") @@ ("10" :> "10.0")
    @@ ("10.0" :> "10.0") @@ ("2.5" :> "2.5") @@ ("0.5" :> "0.5")

PhysicalType ==
    ("TeV" :> "energy") @@ ("GeV" :> "energy") @@ ("deg" :> "angle")
    @@ ("rad" :> "angle") @@ ("s" :> "time") @@ ("" :> "dimensionless")

Units == DOMAIN PhysicalType \ {""}

\* Quantity(str): the texts the unit parser reads, with what they denote
QuantityTexts ==
    [s \in {n \o " " \o u : n \in DOMAIN FloatRepr, u \in Units} |->
        CHOOSE p \in {<<FloatRepr[n], u>> : n \in DOMAIN FloatRepr, u \in Units} :
            \E n \in DOMAIN FloatRepr :
                /\ FloatRepr[n] = p[1]
                /\ s = n \o " " \o p[2]]
    @@ [s \in DOMAIN FloatRepr |-> <<FloatRepr[s], "">>]

\* Time(str): the absolute-time texts read, with the instant they denote
TimeTexts ==
    ("2020-01-01" :> "2020-01-01 00:00:00")
    @@ ("2020-01-01 00:00:00.000" :> "2020-01-01 00:00:00")
    @@ ("2020-06-30 12:00:00" :> "2020-06-30 12:00:00")
    @@ ("2020-06-30 12:00:00.000" :> "2020-06-30 12:00:00")
    @@ ("2020-06-30 12:00:00.0004" :> "2020-06-30 12:00:00.0004")

\* Time.value of an instant in the "iso" format a text is read in: the
\* seconds are printed with three decimals
IsoValue ==
    ("2020-01-01 00:00:00" :> "2020-01-01 00:00:00.000")
    @@ ("2020-06-30 12:00:00" :> "2020-06-30 12:00:00.000")
    @@ ("2020-06-30 12:00:00.0004" :> "2020-06-30 12:00:00.000")

\* Quantity(v)
QuantityOf(v) ==
    CASE Tag(v) \in {"Quantity", "Angle"} -> Ok(<<"Quantity", v[2], v[3]>>)
      [] Tag(v) = "str" /\ v[2] \in DOMAIN QuantityTexts ->
            Ok(<<"Quantity", QuantityTexts[v[2]][1], QuantityTexts[v[2]][2]>>)
      [] Tag(v) \in {"int", "float"} /\ v[2] \in DOMAIN FloatRepr ->
            Ok(<<"Quantity", FloatRepr[v[2]], "">>)
      [] OTHER -> Err("value")

\* AngleType.validate: Angle(v)
AngleValidate(v) ==
    LET q == QuantityOf(v) IN
    IF IsOk(q) /\ PhysicalType[q[2][3]] = "angle"
    THEN Ok(<<"Angle", q[2][2], q[2][3]>>)
    ELSE Err("value")

EnergyValidate_NoDimensionCheck(v) == QuantityOf(v)

\* EnergyType.validate
EnergyValidate(v) ==
    LET q == QuantityOf(v) IN
    IF ~IsOk(q) THEN q
    ELSE IF PhysicalType[q[2][3]] # "energy" THEN Err("value")
    ELSE q

\* TimeType.validate: Time(v)
TimeValidate(v) ==
    CASE Tag(v) = "Time" -> Ok(v)
      [] Tag(v) = "str" /\ v[2] \in DOMAIN TimeTexts -> Ok(<<"Time", TimeTexts[v[2]]>>)
      [] OTHER -> Err("value")

\* the GammapyBaseConfig.Config.json_encoders entries
EncodeAngle(v) == PyStr(v[2] \o " " \o v[3])
EncodeQuantity(v) == PyStr(v[2] \o " " \o v[3])
EncodeTime(v) == PyStr(IsoValue[v[2]])

----------------------------------------------------------------------------
(* The enums *)

EnumValues ==
    [ReductionTypeEnum |-> {"1d", "3d"},
     FrameEnum |-> {"icrs", "galactic"},
     BackgroundMethodEnum |-> {"reflected"},
     MapSelectionEnum |-> {"counts", "exposure", "background", "psf", "edisp"}]

EnumValidate_AcceptAny(cls, v) ==
    IF Tag(v) = "str" THEN Ok(<<"Enum", cls, v[2]>>) ELSE Ok(v)

\* pydantic's enum validator: a member, or the text of a declared literal
EnumValidate(cls, v) ==
    CASE Tag(v) = "Enum" /\ v[2] = cls -> Ok(v)
      [] Tag(v) = "str" /\ v[2] \in EnumValues[cls] -> Ok(<<"Enum", cls, v[2]>>)
      [] OTHER -> Err("enum")

----------------------------------------------------------------------------
(* pydantic's validators of the primitive field types *)

IntTexts == {"1", "2", "10", "30"}

\* int(float)
Truncated ==
    ("0.1" :> "0") @@ ("0.5" :> "0") @@ ("2.5" :> "2") @@ ("5.0" :> "5")
    @@ ("10.0" :> "10")

IntValidate(v) ==
    CASE Tag(v) = "int" -> Ok(v)
      [] Tag(v) = "float" /\ v[2] \in DOMAIN Truncated -> Ok(PyInt(Truncated[v[2]]))
      [] Tag(v) = "str" /\ v[2] \in IntTexts -> Ok(PyInt(v[2]))
      [] Tag(v) = "bool" -> Ok(PyInt(IF v[2] = "True" THEN "1" ELSE "0"))
      [] OTHER -> Err("type")

BoolTexts ==
    ("true" :> "True") @@ ("yes" :> "True") @@ ("on" :> "True") @@ ("1" :> "True")
    @@ ("false" :> "False") @@ ("no" :> "False") @@ ("off" :> "False")
    @@ ("0" :> "False")

BoolValidate(v) ==
    CASE Tag(v) = "bool" -> Ok(v)
      [] Tag(v) \in {"str", "int"} /\ v[2] \in DOMAIN BoolTexts ->
            Ok(PyBool(BoolTexts[v[2]]))
      [] OTHER -> Err("type")

StrValidate(v) ==
    CASE Tag(v) = "str" -> Ok(v)
      [] Tag(v) \in {"int", "float", "bool"} -> Ok(PyStr(v[2]))
      [] Tag(v) = "Enum" -> Ok(PyStr(v[3]))
      [] OTHER -> Err("type")

PathValidate(v) ==
    CASE Tag(v) = "Path" -> Ok(v)
      [] Tag(v) = "str" -> Ok(PyPath(v[2]))
      [] OTHER -> Err("type")

\* the file system: path |-> <<"absent">> or <<"file", content>>
Absent == <<"absent">>
FileOf(c) == <<"file", c>>
Exists(p) == p \in DOMAIN fs /\ fs[p] # Absent

\* pydantic.FilePath: a path that names an existing file
FilePathValidate(v) ==
    LET p == PathValidate(v) IN
    IF ~IsOk(p) THEN p
    ELSE IF ~Exists(p[2][2]) THEN Err("path")
    ELSE p

----------------------------------------------------------------------------
(* The schema: class |-> its fields in declaration order.  A field's type  *)
(* is <<"angle">>, <<"energy">>, <<"time">>, <<"enum", class>>, <<"int">>, *)
(* <<"bool">>, <<"str">>, <<"path">>, <<"filepath">>, <<"list", type>> or  *)
(* <<"model", class>>; its default is a Python value, or <<"new", class>>  *)
(* for a default instance Class().                                         *)

Field(n, t, d) == [name |-> n, type |-> t, default |-> d]
New(cls) == <<"new", cls>>
Model(cls) == <<"model", cls>>

\* gammapy.cube.MapDatasetMaker.available_selection
AvailableSelection ==
    PyList(<<PyStr("counts"), PyStr("exposure"), PyStr("background"),
             PyStr("psf"), PyStr("edisp")>>)

Schema ==
    [SkyCoordConfig |-> <<
        Field("frame", <<"enum", "FrameEnum">>, None),
        Field("lon", <<"angle">>, None),
        Field("lat", <<"angle">>, None)>>,
     EnergyAxisConfig |-> <<
        Field("min", <<"energy">>, PyStr("0.1 TeV")),
        Field("max", <<"energy">>, PyStr("10 TeV")),
        Field("nbins", <<"int">>, PyInt("30"))>>,
     SpatialCircleConfig |-> <<
        Field("frame", <<"enum", "FrameEnum">>, None),
        Field("lon", <<"angle">>, None),
        Field("lat", <<"angle">>, None),
        Field("radius", <<"angle">>, None)>>,
     EnergyRangeConfig |-> <<
        Field("min", <<"energy">>, PyStr("0.1 TeV")),
        Field("max", <<"energy">>, PyStr("10 TeV"))>>,
     TimeRangeConfig |-> <<
        Field("start", <<"time">>, None),
        Field("stop", <<"time">>, None)>>,
     FluxPointsConfig |-> <<
        Field("energy", Model("EnergyAxisConfig"), New("EnergyAxisConfig"))>>,
     FitConfig |-> <<
        Field("fit_range", Model("EnergyRangeConfig"), New("EnergyRangeConfig"))>>,
     BackgroundConfig |-> <<
        Field("method", <<"enum", "BackgroundMethodEnum">>,
              <<"Enum", "BackgroundMethodEnum", "reflected">>),
        Field("exclusion", <<"filepath">>, None)>>,
     EnergyAxesConfig |-> <<
        Field("energy", Model("EnergyAxisConfig"), New("EnergyAxisConfig")),
        Field("energy_true", Model("EnergyAxisConfig"), New("EnergyAxisConfig"))>>,
     SelectionConfig |-> <<
        Field("offset_max", <<"angle">>, PyStr("2.5 deg"))>>,
     FovConfig |-> <<
        Field("width", <<"angle">>, PyStr("5 deg")),
        Field("height", <<"angle">>, PyStr("5 deg"))>>,
     WcsConfig |-> <<
        Field("skydir", Model("SkyCoordConfig"), New("SkyCoordConfig")),
        Field("binsize", <<"angle">>, PyStr("0.1 deg")),
        Field("fov", Model("FovConfig"), New("FovConfig")),
        Field("binsize_irf", <<"angle">>, PyStr("0.1 deg")),
        Field("margin_irf", <<"angle">>, PyStr("0.1 deg"))>>,
     GeomConfig |-> <<
        Field("wcs", Model("WcsConfig"), New("WcsConfig")),
        Field("selection", Model("SelectionConfig"), New("SelectionConfig")),
        Field("axes", Model("EnergyAxesConfig"), New("EnergyAxesConfig"))>>,
     DatasetsConfig |-> <<
        Field("type", <<"enum", "ReductionTypeEnum">>,
              <<"Enum", "ReductionTypeEnum", "1d">>),
        Field("stack", <<"bool">>, PyBool("True")),
        Field("geom", Model("GeomConfig"), New("GeomConfig")),
        Field("map_selection", <<"list", <<"enum", "MapSelectionEnum">>>>,
              AvailableSelection),
        Field("background", Model("BackgroundConfig"), New("BackgroundConfig")),
        Field("on_region", Model("SpatialCircleConfig"), New("SpatialCircleConfig")),
        Field("containment_correction", <<"bool">>, PyBool("True"))>>,
     ObservationsConfig |-> <<
        Field("datastore", <<"path">>, PyPath("$GAMMAPY_DATA/hess-dl3-dr1")),
        Field("obs_ids", <<"list", <<"int">>>>, PyList(<<>>)),
        Field("obs_file", <<"filepath">>, None),
        Field("obs_cone", Model("SpatialCircleConfig"), New("SpatialCircleConfig")),
        Field("obs_time", Model("TimeRangeConfig"), New("TimeRangeConfig"))>>,
     LogConfig |-> <<
        Field("level", <<"str">>, PyStr("info")),
        Field("filename", <<"path">>, None),
        Field("filemode", <<"str">>, None),
        Field("format", <<"str">>, None),
        Field("datefmt", <<"str">>, None)>>,
     GeneralConfig |-> <<
        Field("log", Model("LogConfig"), New("LogConfig")),
        Field("outdir", <<"str">>, PyStr("."))>>,
     AnalysisConfig |-> <<
        Field("general", Model("GeneralConfig"), New("GeneralConfig")),
        Field("observations", Model("ObservationsConfig"), New("ObservationsConfig")),
        Field("datasets", Model("DatasetsConfig"), New("DatasetsConfig")),
        Field("fit", Model("FitConfig"), New("FitConfig")),
        Field("flux_points", Model("FluxPointsConfig"), New("FluxPointsConfig"))>>]

\* the fields of each class by name (pydantic's __fields__)
Fields ==
    Strict([cls \in DOMAIN Schema |->
        Strict([n \in {Schema[cls][i].name : i \in 1..Len(Schema[cls])} |->
            Schema[cls][CHOOSE i \in 1..Len(Schema[cls]) : Schema[cls][i].name = n]])])

FieldNames(cls) == DOMAIN Fields[cls]
FieldOf(cls, n) == Fields[cls][n]

\* a field declared with the default None is Optional
AllowNone(f) == f.default = None

----------------------------------------------------------------------------
(* Construction and validation (validate_all, extra = "forbid").  dflt    *)
(* holds the default instance of each class defined so far.                *)

RECURSIVE Construct(_, _, _), ValidateType(_, _, _)

\* pydantic's ModelField.validate
ValidateField(f, v, dflt) ==
    IF v = None
    THEN IF AllowNone(f) THEN Ok(None) ELSE Err("none")
    ELSE ValidateType(f.type, v, dflt)

ValidateType(t, v, dflt) ==
    CASE t[1] = "angle" -> AngleValidate(v)
      [] t[1] = "energy" -> EnergyValidate(v)
      [] t[1] = "time" -> TimeValidate(v)
      [] t[1] = "enum" -> EnumValidate(t[2], v)
      [] t[1] = "int" -> IntValidate(v)
      [] t[1] = "bool" -> BoolValidate(v)
      [] t[1] = "str" -> StrValidate(v)
      [] t[1] = "path" -> PathValidate(v)
      [] t[1] = "filepath" -> FilePathValidate(v)
      [] t[1] = "list" ->
            IF Tag(v) # "list" THEN Err("type")
            ELSE With(Strict([i \in 1..Len(v[2]) |->
                          IF v[2][i] = None THEN Err("none")
                          ELSE ValidateType(t[2], v[2][i], dflt)]),
                      LAMBDA r :
                          IF \E i \in 1..Len(v[2]) : ~IsOk(r[i]) THEN Err("item")
                          ELSE Ok(PyList(Strict([i \in 1..Len(v[2]) |-> r[i][2]]))))
      [] t[1] = "model" ->
            CASE Tag(v) = "dict" -> Construct(t[2], v[2], dflt)
              [] Tag(v) = "model" /\ v[2] = t[2] -> Ok(v)
              [] OTHER -> Err("type")

\* the declared default of a field: a value, or the instance Class() made
\* when the class statement ran
DefaultOf(f, dflt) ==
    IF f.default[1] = "new" THEN dflt[f.default[2]] ELSE f.default

Forbidden_IgnoreExtra(cls, kw) == {}

\* Config.extra = "forbid": the keys of kw that cls does not declare
Forbidden(cls, kw) == DOMAIN kw \ FieldNames(cls)

\* cls(**kw): a validated instance, or the validation error
Construct(cls, kw, dflt) ==
    With(Strict([n \in FieldNames(cls) |->
             ValidateField(FieldOf(cls, n),
                           IF n \in DOMAIN kw THEN kw[n]
                           ELSE DefaultOf(FieldOf(cls, n), dflt),
                           dflt)]),
         LAMBDA r :
             IF Forbidden(cls, kw) # {} THEN Err("extra")
             ELSE IF \E n \in FieldNames(cls) : ~IsOk(r[n])
             THEN Err(r[CHOOSE n \in FieldNames(cls) : ~IsOk(r[n])][2])
             ELSE Ok(<<"model", cls, Strict([n \in FieldNames(cls) |-> r[n][2]])>>))

\* the classes in the order the module defines them
ClassOrder == <<
    "SkyCoordConfig", "EnergyAxisConfig", "SpatialCircleConfig",
    "EnergyRangeConfig", "TimeRangeConfig", "FluxPointsConfig", "FitConfig",
    "BackgroundConfig", "EnergyAxesConfig", "SelectionConfig", "FovConfig",
    "WcsConfig", "GeomConfig", "DatasetsConfig", "ObservationsConfig",
    "LogConfig", "GeneralConfig", "AnalysisConfig">>

RECURSIVE DefaultsAfter(_)

\* the default instances once the first i class statements have run: the
\* defaults Class() of a class body are built from the classes before it
DefaultsAfter(i) ==
    IF i = 0 THEN EmptyMap
    ELSE With(DefaultsAfter(i - 1),
              LAMBDA before :
                  (ClassOrder[i] :> Construct(ClassOrder[i], EmptyMap, before)[2])
                  @@ before)

\* AnalysisConfig(**kw)
NewConfig(kw) == Construct("AnalysisConfig", kw, defaults)

----------------------------------------------------------------------------
(* BaseModel.dict, pydantic.utils.deep_update, BaseModel.json *)

\* the value a field has when the class default is used
FieldDefault(cls, n) == defaults[cls][3][n]

RECURSIVE ModelDict(_, _)

\* m.dict(exclude_defaults=excl): nested instances become mappings; with
\* excl a field equal to its default is left out
ModelDict(m, excl) ==
    PyDict(Strict([n \in {k \in FieldNames(m[2]) :
                            ~(excl /\ m[3][k] = FieldDefault(m[2], k))} |->
               IF Tag(m[3][n]) = "model" THEN ModelDict(m[3][n], excl)
               ELSE m[3][n]]))

RECURSIVE deep_update(_, _)

deep_update_Shallow(mapping, updating) ==
    Strict([k \in DOMAIN mapping \cup DOMAIN updating |->
        IF k \in DOMAIN updating THEN updating[k] ELSE mapping[k]])

\* pydantic.utils.deep_update on the contents of two dicts
deep_update(mapping, updating) ==
    Strict([k \in DOMAIN mapping \cup DOMAIN updating |->
        IF k \notin DOMAIN updating THEN mapping[k]
        ELSE IF k \in DOMAIN mapping /\ Tag(mapping[k]) = "dict"
                /\ Tag(updating[k]) = "dict"
        THEN PyDict(deep_update(mapping[k][2], updating[k][2]))
        ELSE updating[k]])

RECURSIVE Jsonable(_)

\* json.loads(json.dumps(v, default=encoder)) with Config.json_encoders:
\* what is left are str, int, bool, None, list and dict
Jsonable(v) ==
    CASE Tag(v) = "Angle" -> EncodeAngle(v)
      [] Tag(v) = "Quantity" -> EncodeQuantity(v)
      [] Tag(v) = "Time" -> EncodeTime(v)
      [] Tag(v) = "Enum" -> PyStr(v[3])
      [] Tag(v) = "Path" -> PyStr(v[2])
      [] Tag(v) = "list" -> PyList(Strict([i \in 1..Len(v[2]) |-> Jsonable(v[2][i])]))
      [] Tag(v) = "dict" -> PyDict(Strict([k \in DOMAIN v[2] |-> Jsonable(v[2][k])]))
      [] OTHER -> v

----------------------------------------------------------------------------
(* YAML.  A document is a tree of nodes <<"map", [key |-> node]>>,         *)
(* <<"seq", <<nodes>>>> and scalars <<"plain", text>>, <<"quoted", text>>: *)
(* the layout is left out, the scalar texts and their quoting are kept.    *)

Plain(t) == <<"plain", t>>
Quoted(t) == <<"quoted", t>>

YamlBoolTexts ==
    ("true" :> "True") @@ ("yes" :> "True") @@ ("on" :> "True")
    @@ ("false" :> "False") @@ ("no" :> "False") @@ ("off" :> "False")

\* the implicit resolver of a plain scalar (YAML 1.1)
YamlResolve(t) ==
    CASE t \in {"null", "~", ""} -> "null"
      [] t \in DOMAIN YamlBoolTexts -> "bool"
      [] t \in IntTexts \cup {"0", "5", "42"} -> "int"
      [] t \in {"0.1", "0.5", "2.5", "5.0", "10.0"} -> "float"
      [] t \in DOMAIN TimeTexts -> "timestamp"
      [] OTHER -> "str"

RECURSIVE YamlLoad(_), YamlDump(_)

\* yaml.safe_load
YamlLoad(node) ==
    CASE node[1] = "map" ->
            PyDict(Strict([k \in DOMAIN node[2] |-> YamlLoad(node[2][k])]))
      [] node[1] = "seq" ->
            PyList(Strict([i \in 1..Len(node[2]) |-> YamlLoad(node[2][i])]))
      [] node[1] = "quoted" -> PyStr(node[2])
      [] OTHER ->
            CASE YamlResolve(node[2]) = "null" -> None
              [] YamlResolve(node[2]) = "bool" -> PyBool(YamlBoolTexts[node[2]])
              [] YamlResolve(node[2]) = "int" -> PyInt(node[2])
              [] YamlResolve(node[2]) = "float" -> <<"float", node[2]>>
              [] YamlResolve(node[2]) = "timestamp" -> <<"date", node[2]>>
              [] OTHER -> PyStr(node[2])

\* a str is written plain unless a plain scalar of that text would not load as a str
YamlDumpStr(t) == IF YamlResolve(t) = "str" THEN Plain(t) ELSE Quoted(t)

\* yaml.dump of a JSON value
YamlDump(v) ==
    CASE Tag(v) = "dict" ->
            <<"map", Strict([k \in DOMAIN v[2] |-> YamlDump(v[2][k])])>>
      [] Tag(v) = "list" ->
            <<"seq", Strict([i \in 1..Len(v[2]) |-> YamlDump(v[2][i])])>>
      [] Tag(v) = "None" -> Plain("null")
      [] Tag(v) = "bool" -> Plain(IF v[2] = "True" THEN "true" ELSE "false")
      [] Tag(v) = "int" -> Plain(v[2])
      [] OTHER -> YamlDumpStr(v[2])

\* AnalysisConfig.to_yaml
to_yaml(self) ==
    With(ModelDict(self, FALSE),
         LAMBDA config : With(Jsonable(config), LAMBDA loaded : YamlDump(loaded)))

\* AnalysisConfig.from_yaml: AnalysisConfig(**settings) needs a mapping
from_yaml(config_str) ==
    With(YamlLoad(config_str),
         LAMBDA settings :
             IF Tag(settings) # "dict" THEN Err("type") ELSE NewConfig(settings[2]))

\* os.path.expandvars on the path texts that name a variable
Expanded == ("$OUT/cfg.yaml" :> "out/cfg.yaml")

\* gammapy.utils.scripts.make_path: the path with its variables expanded
make_path(path) == IF path \in DOMAIN Expanded THEN Expanded[path] ELSE path

\* gammapy.utils.scripts.read_yaml: the loaded document, or the I/O error
read_yaml(path) ==
    IF ~Exists(make_path(path)) THEN Err("io")
    ELSE Ok(YamlLoad(fs[make_path(path)][2]))

\* AnalysisConfig.read
read(path) ==
    With(read_yaml(path),
         LAMBDA config :
             IF ~IsOk(config) THEN config
             ELSE IF Tag(config[2]) # "dict" THEN Err("type")
             ELSE NewConfig(config[2][2]))

write_NoGuard(self, path, overwrite) ==
    With(to_yaml(self),
         LAMBDA text : [st |-> "returned",
                        fs |-> [fs EXCEPT ![make_path(path)] = FileOf(text)]])

\* AnalysisConfig.write: how the call ends and the file system it leaves
write(self, path, overwrite) ==
    IF Exists(make_path(path)) /\ ~overwrite
    THEN [st |-> "raised", fs |-> fs]
    ELSE With(to_yaml(self),
              LAMBDA text : [st |-> "returned",
                             fs |-> [fs EXCEPT ![make_path(path)] = FileOf(text)]])

----------------------------------------------------------------------------
(* AnalysisConfig.update *)

\* what a call leaves: st is "returned" or "raised", val the value returned,
\* cfg the override as an AnalysisConfig once lines 272-275 have run
Outcome(st, val, cfg) == [st |-> st, val |-> val, cfg |-> cfg]

IsConfig(v) == Tag(v) = "model" /\ v[2] = "AnalysisConfig"

\* lines 276-280: the merge with an override that is an AnalysisConfig
Merge(self, config) ==
    With(ModelDict(self, TRUE), LAMBDA mine :
    With(ModelDict(config, TRUE), LAMBDA theirs :
    With(deep_update(mine[2], theirs[2]), LAMBDA upd_config :
    With(NewConfig(upd_config), LAMBDA new :
        IF IsOk(new) THEN Outcome("returned", new[2], config)
        ELSE Outcome("raised", None, config)))))

\* lines 274-280: a dict becomes an AnalysisConfig; anything that is not
\* one by then falls off the end of the method
UpdateFrom(self, config) ==
    With(IF Tag(config) = "dict" THEN NewConfig(config[2]) ELSE Ok(config),
         LAMBDA made :
             IF ~IsOk(made) THEN Outcome("raised", None, None)
             ELSE IF IsConfig(made[2]) THEN Merge(self, made[2])
             ELSE Outcome("returned", None, None))

\* AnalysisConfig.update; a str argument holds a YAML document,
\* <<"str", document>>, and dict() of what is no mapping raises
update(self, config) ==
    IF Tag(config) = "str"
    THEN With(YamlLoad(config[2]),
              LAMBDA loaded :
                  IF Tag(loaded) # "dict" THEN Outcome("raised", None, None)
                  ELSE UpdateFrom(self, loaded))
    ELSE UpdateFrom(self, config)

----------------------------------------------------------------------------
(* Field assignment (Config.validate_assignment) *)

RECURSIVE GetNode(_, _), SetIn(_, _, _, _)

\* the node reached from m along a path of field names
GetNode(m, path) ==
    IF path = <<>> THEN m ELSE GetNode(m[3][Head(path)], Tail(path))

\* m with field name of the node at path holding val
SetIn(m, path, name, val) ==
    IF path = <<>> THEN <<"model", m[2], [m[3] EXCEPT ![name] = val]>>
    ELSE <<"model", m[2],
           [m[3] EXCEPT ![Head(path)] = SetIn(@, Tail(path), name, val)]>>

setattr_NoValidation(node, name, v) == Ok(v)

\* BaseModel.__setattr__: the value to store, or the error raised
setattr(node, name, v) ==
    IF name \notin FieldNames(node[2]) THEN Err("extra")
    ELSE ValidateField(FieldOf(node[2], name), v, defaults)

----------------------------------------------------------------------------
(* AnalysisConfig.help.  A line of the documentation file is a sequence of *)
(* tokens; a text is a sequence of lines.                                  *)

SectionMark == "# Section: "
StartsWith(line, tok) == Len(line) > 0 /\ line[1] = tok

\* line.replace("# Section: ", "")
WithoutMark(line) == SelectSeq(line, LAMBDA t : t # SectionMark)

\* an insertion-ordered dict as a sequence of <<key, text>>
HasKey(doc, k) == \E i \in 1..Len(doc) : doc[i][1] = k
KeyIndex(doc, k) == CHOOSE i \in 1..Len(doc) : doc[i][1] = k

Append_Overwrite(doc, k, line) ==
    IF HasKey(doc, k) THEN [doc EXCEPT ![KeyIndex(doc, k)] = <<k, <<line>>>>]
    ELSE Append(doc, <<k, <<line>>>>)

\* doc[keyword] += line + "\n" on a defaultdict(str)
AddLine(doc, k, line) ==
    IF HasKey(doc, k)
    THEN [doc EXCEPT ![KeyIndex(doc, k)] = <<k, Append(@[2], line)>>]
    ELSE Append(doc, <<k, <<line>>>>)

RECURSIVE DocSections(_, _, _)

\* the loop of _get_doc_sections over the lines left, with the dict and
\* the keyword so far
DocSections(lines, doc, keyword) ==
    IF lines = <<>> THEN doc
    ELSE LET line == Head(lines) IN
         IF StartsWith(line, "---") THEN DocSections(Tail(lines), doc, keyword)
         ELSE LET kw == IF StartsWith(line, SectionMark) THEN WithoutMark(line)
                        ELSE keyword
              IN  DocSections(Tail(lines), AddLine(doc, kw, line), kw)

\* AnalysisConfig._get_doc_sections
get_doc_sections == DocSections(docs, <<>>, <<"unbound">>)

\* AnalysisConfig.help: what the calls of print write, one entry a call
help(section) ==
    LET doc == get_doc_sections
        hit == SelectSeq(doc, LAMBDA e : section = <<>> \/ section = e[1])
    IN  Strict([i \in 1..Len(hit) |-> hit[i][2]])

----------------------------------------------------------------------------
(* AnalysisConfig.set_logging and logging.basicConfig *)

\* str.upper
Upper ==
    ("info" :> "INFO") @@ ("INFO" :> "INFO") @@ ("debug" :> "DEBUG")
    @@ ("DEBUG" :> "DEBUG") @@ ("bogus" :> "BOGUS") @@ ("BOGUS" :> "BOGUS")
    @@ ("warning" :> "WARNING") @@ ("WARNING" :> "WARNING")

\* logging._nameToLevel
LevelNumber ==
    ("CRITICAL" :> 50) @@ ("FATAL" :> 50) @@ ("ERROR" :> 40) @@ ("WARN" :> 30)
    @@ ("WARNING" :> 30) @@ ("INFO" :> 20) @@ ("DEBUG" :> 10) @@ ("NOTSET" :> 0)

EmptyFile == FileOf(Plain(""))
LogRecords == FileOf(Plain("log records"))

\* the root logger before logging is configured
RootLogger == [handler |-> <<"none">>, level |-> "WARNING"]

\* FileHandler(filename, mode) opens the file: "w" empties it, "a" makes it
Opened(files, filename, mode) ==
    IF mode = "w" \/ files[filename] = Absent
    THEN [files EXCEPT ![filename] = EmptyFile]
    ELSE files

\* logging.basicConfig(**log.dict()) on the root logger, a record
\* [handler |-> <<"none">> | <<"stream">> | <<"file", name>>, level |-> name]:
\* the call does nothing once the root logger has a handler; the handler is
\* added before the level is set
basicConfig(log, root, files) ==
    LET filename == log[3]["filename"]
        filemode == log[3]["filemode"]
        level == log[3]["level"][2]
        withHandler == [root EXCEPT !.handler =
                            IF filename # None THEN <<"file", filename[2]>>
                            ELSE <<"stream">>]
        opened == IF filename # None THEN Opened(files, filename[2], filemode[2])
                  ELSE files
    IN  IF root.handler # <<"none">>
        THEN [st |-> "returned", root |-> root, fs |-> files]
        ELSE IF filename # None /\ filemode = None
        THEN [st |-> "raised", root |-> root, fs |-> files]
        ELSE IF level \notin DOMAIN LevelNumber
        THEN [st |-> "raised", root |-> withHandler, fs |-> opened]
        ELSE [st |-> "returned", root |-> [withHandler EXCEPT !.level = level],
              fs |-> opened]

\* log.info(...): the record reaches the root logger's handler when the
\* root level lets INFO through; the last-resort handler shows no INFO
Emit(root, files) ==
    IF LevelNumber[root.level] > LevelNumber["INFO"] \/ root.handler = <<"none">>
    THEN [fs |-> files, out |-> <<>>]
    ELSE IF root.handler[1] = "file"
    THEN [fs |-> [files EXCEPT ![root.handler[2]] = LogRecords], out |-> <<>>]
    ELSE [fs |-> files, out |-> <<<<"Setting logging config">>>>]

\* AnalysisConfig.set_logging: how the call ends, and the configuration,
\* the root logger, the files and the output it leaves
set_logging(self, root, files) ==
    With(SetIn(self, <<"general", "log">>, "level",
               PyStr(Upper[GetNode(self, <<"general", "log">>)[3]["level"][2]])),
         LAMBDA upper :
    With(basicConfig(GetNode(upper, <<"general", "log">>), root, files),
         LAMBDA b :
             IF b.st = "raised"
             THEN [st |-> "raised", self |-> upper, root |-> b.root, fs |-> b.fs,
                   out |-> <<>>]
             ELSE [st |-> "returned", self |-> upper, root |-> b.root,
                   fs |-> Emit(b.root, b.fs).fs, out |-> Emit(b.root, b.fs).out]))

----------------------------------------------------------------------------
(* Inputs *)

MaxKeys == 2
MaxAssign == 2
MaxLines == 4

\* settings a caller writes in a YAML document: <<path, node>>
Settings == <<
    <<<<"datasets", "type">>, Plain("3d")>>,
    <<<<"datasets", "type">>, Plain("bogus")>>,
    <<<<"datasets", "stack">>, Plain("false")>>,
    <<<<"datasets", "geom", "axes", "energy", "min">>, Plain("5 TeV")>>,
    <<<<"datasets", "geom", "axes", "energy", "min">>, Plain("5 deg")>>,
    <<<<"datasets", "map_selection">>, <<"seq", <<Plain("counts")>>>>>>,
    <<<<"observations", "obs_time", "start">>, Quoted("2020-01-01")>>,
    <<<<"general", "outdir">>, Plain("30")>>,
    <<<<"datasets", "background", "exclusion">>, Plain("mask.fits")>>,
    <<<<"bogus_field">>, Plain("1")>>,
    <<<<"datasets", "geom", "bogus_field">>, Plain("1")>>,
    <<<<"observations", "obs_time", "stop">>, Quoted("2020-06-30 12:00:00.0004")>> >>

InputSets ==
    {I \in SUBSET (1..Len(Settings)) :
        /\ Cardinality(I) <= MaxKeys
        /\ \A i, j \in I : i # j => Settings[i][1] # Settings[j][1]}

RECURSIVE Nest(_)

\* the document with the given settings
Nest(pairs) ==
    <<"map", Strict([k \in {p[1][1] : p \in pairs} |->
        LET sub == {q \in pairs : q[1][1] = k} IN
        IF \E q \in sub : Len(q[1]) = 1
        THEN (CHOOSE q \in sub : Len(q[1]) = 1)[2]
        ELSE Nest({<<Tail(q[1]), q[2]>> : q \in sub})])>>

Doc(I) == Nest({Settings[i] : i \in I})

\* field assignments a caller makes: <<path of the node, field, value>>
Assignments == <<
    <<<<"datasets">>, "stack", PyBool("False")>>,
    <<<<"datasets">>, "type", PyStr("3d")>>,
    <<<<"datasets">>, "type", PyStr("bogus")>>,
    <<<<"datasets">>, "type", None>>,
    <<<<"datasets">>, "bogus_field", PyInt("1")>>,
    <<<<"datasets", "geom", "axes", "energy">>, "min", PyStr("5 GeV")>>,
    <<<<"datasets", "geom", "axes", "energy">>, "min", PyStr("5 deg")>>,
    <<<<"datasets", "geom", "wcs", "skydir">>, "frame", PyStr("icrs")>>,
    <<<<"datasets", "on_region">>, "radius", PyStr("5 TeV")>>,
    <<<<"observations", "obs_time">>, "start", PyStr("not a time")>>,
    <<<<>>, "fit",
      PyDict("fit_range" :> PyDict("max" :> PyStr("5 TeV")))>>,
    <<<<"general", "log">>, "level", PyStr("debug")>>,
    <<<<"general", "log">>, "level", PyStr("bogus")>>,
    <<<<"general", "log">>, "filename", PyStr("run.log")>>,
    <<<<"general", "log">>, "filemode", PyStr("w")>> >>

ConfigAssignments == 1..11
LogAssignments == 12..15
FileAssignments == {1, 2}

\* the files there are before the program runs
InitialFiles ==
    ("valid.yaml" :> FileOf(Doc({1})))
    @@ ("unknown.yaml" :> FileOf(Doc({10})))
    @@ ("nested_unknown.yaml" :> FileOf(Doc({3, 11})))
    @@ ("mask.fits" :> FileOf(Plain("FITS")))
    @@ ("out/cfg.yaml" :> Absent)
    @@ ("run.log" :> Absent)

ReadPaths == {"valid.yaml", "unknown.yaml", "nested_unknown.yaml", "mask.fits",
              "out/cfg.yaml", "$OUT/cfg.yaml"}
WritePaths == {"valid.yaml", "out/cfg.yaml", "$OUT/cfg.yaml"}

----------------------------------------------------------------------------
(* The state.  base is the configuration the caller holds; result is the   *)
(* call in progress or just ended: op its name, st "idle", "returned" or   *)
(* "raised", val the value returned, arg the argument, cfg the override    *)
(* update built, self the receiver as it was when the call began.          *)
(* defaults holds the default instance of every class, made when the       *)
(* module was imported; fs the files; docs the lines of docs.yaml; stdout  *)
(* what the call in progress has printed; logroot the root logger.         *)

Res(op, st, val, arg, cfg, self) ==
    [op |-> op, st |-> st, val |-> val, arg |-> arg, cfg |-> cfg, self |-> self,
     env |-> None]

\* the same, with the files and the root logger there were when it began
ResEnv(op, st, arg, self) ==
    [op |-> op, st |-> st, val |-> None, arg |-> arg, cfg |-> None, self |-> self,
     env |-> [fs |-> fs, logroot |-> logroot]]

IdleResult == Res("idle", "idle", None, None, None, None)
Idle == result.st = "idle"

\* the outcome of a constructor call
Built(op, made, arg, self) ==
    With(made, LAMBDA r :
        Res(op, IF IsOk(r) THEN "returned" ELSE "raised",
            IF IsOk(r) THEN r[2] ELSE None, arg, None, self))

Init ==
    /\ fs = InitialFiles
    /\ defaults = DefaultsAfter(Len(ClassOrder))
    /\ base = NewConfig(EmptyMap)[2]
    /\ result = IdleResult
    /\ nassign = 0
    /\ docs = <<>>
    /\ stdout = <<>>
    /\ logroot = RootLogger

\* the caller takes the outcome of the call
Return ==
    /\ ~Idle
    /\ result' = IdleResult
    /\ stdout' = <<>>
    /\ UNCHANGED <<defaults, base, nassign, fs, docs, logroot>>

\* AnalysisConfig(**m), m the mapping a document of the settings I loads as
DoConstruct(I) ==
    /\ Idle
    /\ \E m \in {YamlLoad(Doc(I))} :
          result' = Built("construct", NewConfig(m[2]), m, None)
    /\ UNCHANGED <<defaults, base, nassign, fs, docs, stdout, logroot>>

\* AnalysisConfig.from_yaml(text), text the document of the settings I
DoFromYaml(I) ==
    /\ Idle
    /\ \E d \in {Doc(I)} :
          result' = Built("from_yaml", from_yaml(d), <<"str", d>>, None)
    /\ UNCHANGED <<defaults, base, nassign, fs, docs, stdout, logroot>>

\* AnalysisConfig.read(path)
DoRead(path) ==
    /\ Idle
    /\ result' = Built("read", read(path), PyStr(path), None)
    /\ UNCHANGED <<defaults, base, nassign, fs, docs, stdout, logroot>>

\* the arguments update is called with
UpdateArgs(I) ==
    With(Doc(I), LAMBDA d :
    With(from_yaml(d), LAMBDA c :
        {<<"str", d>>, YamlLoad(d)} \cup (IF IsOk(c) THEN {c[2]} ELSE {})))

OtherArgs == {None, PyInt("42"), <<"str", Plain("42")>>}

\* base.update(arg)
DoUpdate(arg) ==
    /\ \E o \in {update(base, arg)} :
          result' = Res("update", o.st, o.val, arg, o.cfg, base)
    /\ UNCHANGED <<defaults, base, nassign, fs, docs, stdout, logroot>>

\* base.update with the settings I as a text, a mapping or an AnalysisConfig
DoUpdateWith(I) ==
    /\ Idle
    /\ \E arg \in UpdateArgs(I) : DoUpdate(arg)

\* base.update with no argument, with what is none of the three, with base
DoUpdateOther ==
    /\ Idle
    /\ \E arg \in OtherArgs \cup {base} : DoUpdate(arg)

\* node.name = v on the node of base at a path
DoSetAttr(a) ==
    /\ Idle
    /\ nassign < MaxAssign
    /\ \E r \in {setattr(GetNode(base, a[1]), a[2], a[3])} :
          IF IsOk(r)
          THEN /\ base' = SetIn(base, a[1], a[2], r[2])
               /\ nassign' = nassign + 1
               /\ result' = Res("setattr", "returned", None, a, None, base)
          ELSE /\ result' = Res("setattr", "raised", None, a, None, base)
               /\ UNCHANGED <<base, nassign>>
    /\ UNCHANGED <<defaults, fs, docs, stdout, logroot>>

\* c.to_yaml() on the configuration just returned
DoToYaml ==
    /\ result.st = "returned"
    /\ IsConfig(result.val)
    /\ \E text \in {to_yaml(result.val)} :
          result' = Res("to_yaml", "returned", <<"str", text>>, None, None,
                        result.val)
    /\ UNCHANGED <<defaults, base, nassign, fs, docs, stdout, logroot>>

\* AnalysisConfig.from_yaml(text) on the text to_yaml just returned
DoFromYamlText ==
    /\ result.st = "returned"
    /\ result.op = "to_yaml"
    /\ result' = Built("from_yaml_text", from_yaml(result.val[2]), result.val,
                       result.self)
    /\ UNCHANGED <<defaults, base, nassign, fs, docs, stdout, logroot>>

\* base.write(path, overwrite)
DoWrite(path, overwrite) ==
    /\ Idle
    /\ \E w \in {write(base, path, overwrite)} :
          /\ fs' = w.fs
          /\ result' = ResEnv("write", w.st, <<path, overwrite>>, base)
    /\ UNCHANGED <<defaults, base, nassign, docs, stdout, logroot>>

\* base.help(section)
DoHelp(section) ==
    /\ Idle
    /\ stdout' = help(section)
    /\ result' = ResEnv("help", "returned", section, base)
    /\ UNCHANGED <<defaults, base, nassign, fs, docs, logroot>>

\* base.set_logging()
DoSetLogging ==
    /\ Idle
    /\ \E o \in {set_logging(base, logroot, fs)} :
          /\ base' = o.self
          /\ logroot' = o.root
          /\ fs' = o.fs
          /\ stdout' = o.out
          /\ result' = ResEnv("set_logging", o.st, None, base)
    /\ UNCHANGED <<defaults, nassign, docs>>

Next ==
    \/ \E I \in InputSets : DoConstruct(I)
    \/ \E I \in InputSets : DoFromYaml(I)
    \/ \E p \in ReadPaths : DoRead(p)
    \/ \E I \in InputSets : DoUpdateWith(I)
    \/ DoUpdateOther
    \/ \E i \in ConfigAssignments : DoSetAttr(Assignments[i])
    \/ Return

Spec == Init /\ [][Next]_vars

----------------------------------------------------------------------------
(* Serializing and reading back *)

NextYaml ==
    \/ \E I \in InputSets : DoConstruct(I)
    \/ \E p \in ReadPaths : DoRead(p)
    \/ \E i \in ConfigAssignments : DoSetAttr(Assignments[i])
    \/ DoUpdateOther
    \/ DoToYaml
    \/ DoFromYamlText
    \/ Return

SpecYaml == Init /\ [][NextYaml]_vars

----------------------------------------------------------------------------
(* Writing and reading files *)

NextFiles ==
    \/ \E p \in WritePaths : \E overwrite \in BOOLEAN : DoWrite(p, overwrite)
    \/ \E p \in ReadPaths : DoRead(p)
    \/ \E i \in FileAssignments : DoSetAttr(Assignments[i])
    \/ Return

SpecFiles == Init /\ [][NextFiles]_vars

----------------------------------------------------------------------------
(* The documentation lookup *)

DocLines == {
    <<"---">>,
    <<SectionMark, "general">>,
    <<SectionMark, "fit">>,
    <<"# ", "General settings">>,
    <<"# ", "Fit settings">> }

\* the first line that is no "---" line heads a section, as in docs.yaml
WellFormed(lines) ==
    /\ \E i \in 1..Len(lines) : ~StartsWith(lines[i], "---")
    /\ StartsWith(
          lines[CHOOSE i \in 1..Len(lines) :
                   /\ ~StartsWith(lines[i], "---")
                   /\ \A j \in 1..(i - 1) : StartsWith(lines[j], "---")],
          SectionMark)

DocFiles ==
    {d \in UNION {[1..n -> DocLines] : n \in 1..MaxLines} : WellFormed(d)}

Sections == {<<>>, <<"general">>, <<"fit">>, <<"nonexistent">>}

InitHelp ==
    /\ fs = InitialFiles
    /\ defaults = DefaultsAfter(Len(ClassOrder))
    /\ base = NewConfig(EmptyMap)[2]
    /\ result = IdleResult
    /\ nassign = 0
    /\ docs \in DocFiles
    /\ stdout = <<>>
    /\ logroot = RootLogger

NextHelp ==
    \/ \E section \in Sections : DoHelp(section)
    \/ Return

SpecHelp == InitHelp /\ [][NextHelp]_vars

----------------------------------------------------------------------------
(* Logging *)

NextLog ==
    \/ \E i \in LogAssignments : DoSetAttr(Assignments[i])
    \/ DoSetLogging
    \/ Return

SpecLog == Init /\ [][NextLog]_vars

----------------------------------------------------------------------------
(* The properties *)

\* the mapping a call builds its configuration from, None when there is none
ArgMapping(r) ==
    CASE r.op = "construct" -> r.arg
      [] r.op = "from_yaml" -> YamlLoad(r.arg[2])
      [] r.op = "read" ->
            IF Exists(make_path(r.arg[2])) THEN YamlLoad(fs[make_path(r.arg[2])][2])
            ELSE None
      [] r.op = "update" ->
            IF Tag(r.arg) = "str" THEN YamlLoad(r.arg[2]) ELSE r.arg
      [] OTHER -> None

RECURSIVE MergedLeafwise(_, _, _)

\* every leaf of out is theirs where theirs differs from the schema
\* default, and mine otherwise
MergedLeafwise(out, mine, theirs) ==
    \A n \in FieldNames(out[2]) :
        IF Tag(theirs[3][n]) = "model" /\ Tag(mine[3][n]) = "model"
        THEN /\ Tag(out[3][n]) = "model"
             /\ MergedLeafwise(out[3][n], mine[3][n], theirs[3][n])
        ELSE out[3][n] = IF theirs[3][n] # FieldDefault(out[2], n)
                         THEN theirs[3][n]
                         ELSE mine[3][n]

InvalidReductionType(r) ==
    LET d == ArgMapping(r) IN
    /\ Tag(d) = "dict"
    /\ "datasets" \in DOMAIN d[2]
    /\ Tag(d[2]["datasets"]) = "dict"
    /\ "type" \in DOMAIN d[2]["datasets"][2]
    /\ LET v == d[2]["datasets"][2]["type"] IN
       ~(Tag(v) = "str" /\ v[2] \in EnumValues["ReductionTypeEnum"])

\* C2: update with an override whose datasets.type is no declared enum
\* literal raises and returns no configuration; whether update raises or
\* returns, the base holds in every field the value it held before the call
C2_InvalidEnumRejected ==
    result.op = "update" =>
        /\ InvalidReductionType(result) =>
              (result.st = "raised" /\ result.val = None)
        /\ base = result.self

\* an update of a changed base with an override whose datasets.type is bogus
C2_Witness ==
    /\ result.op = "update"
    /\ InvalidReductionType(result)
    /\ result.st = "raised"
    /\ base # NewConfig(EmptyMap)[2]

RECURSIVE WellTyped(_)

\* every field of m, at any depth, holds a value its validator accepts, in
\* the form the validator stores
WellTyped(m) ==
    \A n \in FieldNames(m[2]) :
        /\ ValidateField(FieldOf(m[2], n), m[3][n], defaults) = Ok(m[3][n])
        /\ Tag(m[3][n]) = "model" => WellTyped(m[3][n])

\* the validator of the field an assignment names rejects its value
Rejected(self, a) ==
    \/ a[2] \notin FieldNames(GetNode(self, a[1])[2])
    \/ ~IsOk(ValidateField(FieldOf(GetNode(self, a[1])[2], a[2]), a[3], defaults))

\* C3: after any sequence of assignments on the root or a nested node every
\* field holds a value its validator accepts; an assignment the validator
\* rejects raises and leaves the configuration as it was
C3_AssignmentsKeepValid ==
    /\ WellTyped(base)
    /\ result.op = "setattr" =>
          IF Rejected(result.self, result.arg)
          THEN result.st = "raised" /\ base = result.self
          ELSE /\ result.st = "returned"
               /\ GetNode(base, result.arg[1])[3][result.arg[2]]
                     = ValidateField(FieldOf(GetNode(result.self, result.arg[1])[2],
                                             result.arg[2]),
                                     result.arg[3], defaults)[2]

\* a rejected enum literal, after an assignment that went through
C3_Witness ==
    /\ result.op = "setattr"
    /\ result.arg = Assignments[3]
    /\ result.st = "raised"
    /\ nassign > 0

RECURSIVE UnknownKey(_, _)

\* the mapping d for class cls holds, at some depth, a key cls does not
\* declare
UnknownKey(cls, d) ==
    \E k \in DOMAIN d :
        \/ k \notin FieldNames(cls)
        \/ /\ FieldOf(cls, k).type[1] = "model"
           /\ Tag(d[k]) = "dict"
           /\ UnknownKey(FieldOf(cls, k).type[2], d[k][2])

\* C4: construction from a mapping with a key the schema does not declare,
\* at the root or in a nested node, raises and yields no configuration, by
\* direct construction, from_yaml, read, and update with text or mapping
C4_UnknownKeyRejected ==
    (/\ result.op \in {"construct", "from_yaml", "read", "update"}
     /\ Tag(ArgMapping(result)) = "dict"
     /\ UnknownKey("AnalysisConfig", ArgMapping(result)[2])) =>
        (result.st = "raised" /\ result.val = None)

\* an update with a mapping whose only undeclared key is in a nested node
C4_Witness ==
    /\ result.op = "update"
    /\ Tag(result.arg) = "dict"
    /\ DOMAIN result.arg[2] \subseteq FieldNames("AnalysisConfig")
    /\ UnknownKey("AnalysisConfig", result.arg[2])
    /\ result.st = "raised"

\* C5: from_yaml(c.to_yaml()) succeeds and yields a configuration equal to
\* c in every field, those left unset or at their default included
C5_RoundTrip ==
    result.op = "from_yaml_text" =>
        (result.st = "returned" /\ result.val = result.self)

EnergyField(cls, n) ==
    cls \in {"EnergyAxisConfig", "EnergyRangeConfig"} /\ n \in {"min", "max"}

\* the physical dimension a value parses to
Dimension(v) ==
    IF IsOk(QuantityOf(v)) THEN PhysicalType[QuantityOf(v)[2][3]]
    ELSE "unparsable"

RECURSIVE EnergyStored(_), OffDimension(_, _)

\* every energy field of m, at any depth, is unset or an energy
EnergyStored(m) ==
    \A n \in FieldNames(m[2]) :
        /\ (EnergyField(m[2], n) /\ m[3][n] # None) =>
              (Tag(m[3][n]) = "Quantity" /\ PhysicalType[m[3][n][3]] = "energy")
        /\ Tag(m[3][n]) = "model" => EnergyStored(m[3][n])

\* the mapping d for class cls gives an energy field, at some depth, a
\* value of another dimension
OffDimension(cls, d) ==
    \E k \in DOMAIN d \cap FieldNames(cls) :
        \/ EnergyField(cls, k) /\ d[k] # None /\ Dimension(d[k]) # "energy"
        \/ /\ FieldOf(cls, k).type[1] = "model"
           /\ Tag(d[k]) = "dict"
           /\ OffDimension(FieldOf(cls, k).type[2], d[k][2])

\* C6: an energy field takes a value only when it parses to the dimension
\* energy: any other dimension raises, on construction and on assignment,
\* and "5 TeV" is accepted and stored as an energy
C6_EnergyDimension ==
    /\ EnergyStored(base)
    /\ (result.st = "returned" /\ IsConfig(result.val)) => EnergyStored(result.val)
    /\ (/\ result.op \in {"construct", "from_yaml"}
        /\ Tag(ArgMapping(result)) = "dict"
        /\ OffDimension("AnalysisConfig", ArgMapping(result)[2])) =>
          result.st = "raised"
    /\ (/\ result.op \in {"construct", "from_yaml"}
        /\ ArgMapping(result) = YamlLoad(Doc({4}))) =>
          /\ result.st = "returned"
          /\ GetNode(result.val, <<"datasets", "geom", "axes", "energy">>)[3]["min"]
                = <<"Quantity", "5.0", "TeV">>
    /\ (/\ result.op = "setattr"
        /\ EnergyField(GetNode(result.self, result.arg[1])[2], result.arg[2])
        /\ result.arg[3] # None) =>
          IF Dimension(result.arg[3]) = "energy"
          THEN /\ result.st = "returned"
               /\ GetNode(base, result.arg[1])[3][result.arg[2]]
                     = QuantityOf(result.arg[3])[2]
          ELSE result.st = "raised" /\ base = result.self

\* "5 deg" assigned to an energy field that holds an energy
C6_Witness ==
    /\ result.op = "setattr"
    /\ result.arg = Assignments[7]
    /\ result.st = "raised"
    /\ GetNode(base, <<"datasets", "geom", "axes", "energy">>)[3]["min"]
          = <<"Quantity", "5.0", "GeV">>

\* C7: write on a path that exists, without overwrite, raises and leaves
\* the file as it was; the file at the path becomes the serialized
\* configuration only when the path did not exist or overwrite is true
C7_WriteGuard ==
    result.op = "write" =>
        LET path == make_path(result.arg[1])
            overwrite == result.arg[2]
            before == result.env.fs
        IN  /\ \A p \in DOMAIN fs \ {path} : fs[p] = before[p]
            /\ IF before[path] # Absent /\ ~overwrite
               THEN result.st = "raised" /\ fs[path] = before[path]
               ELSE /\ result.st = "returned"
                    /\ fs[path] = FileOf(to_yaml(result.self))

\* a write without overwrite on a file that holds another configuration
C7_Witness ==
    /\ result.op = "write"
    /\ result.arg[2] = FALSE
    /\ result.st = "raised"
    /\ result.env.fs[make_path(result.arg[1])] # Absent
    /\ result.env.fs[make_path(result.arg[1])] # FileOf(to_yaml(result.self))

\* the section keyword in force at line i of the documentation file
KeywordAt(i) ==
    WithoutMark(docs[CHOOSE j \in 1..i :
                        /\ StartsWith(docs[j], SectionMark)
                        /\ \A k \in (j + 1)..i : ~StartsWith(docs[k], SectionMark)])

RECURSIVE LinesOf(_, _, _)

\* the lines from line i on, "---" lines left out, under the keyword
\* section and, with last set, from the last header of that keyword on
LinesOf(section, i, from) ==
    IF i > Len(docs) THEN <<>>
    ELSE (IF /\ ~StartsWith(docs[i], "---")
             /\ KeywordAt(i) = section
             /\ i >= from
          THEN <<docs[i]>> ELSE <<>>) \o LinesOf(section, i + 1, from)

Headers(section) ==
    {i \in 1..Len(docs) :
        StartsWith(docs[i], SectionMark) /\ WithoutMark(docs[i]) = section}

LastHeader(section) ==
    CHOOSE i \in Headers(section) : \A j \in Headers(section) : j <= i

\* C8, as the code has it: help(section) with a non-empty section prints
\* one text, the lines of every block whose keyword equals section exactly,
\* in the order of the file, and nothing when no block has that keyword
C8_HelpPrintsEveryBlock ==
    (result.op = "help" /\ result.arg # <<>>) =>
        stdout = IF Headers(result.arg) = {} THEN <<>>
                 ELSE <<LinesOf(result.arg, 1, 1)>>

\* C8, as stated: of several blocks with the same keyword only the last is
\* printed
C8_LastOccurrenceWins ==
    (result.op = "help" /\ result.arg # <<>>) =>
        stdout = IF Headers(result.arg) = {} THEN <<>>
                 ELSE <<LinesOf(result.arg, 1, LastHeader(result.arg))>>

\* help on a keyword that heads two blocks, another block in between
C8_Witness ==
    /\ result.op = "help"
    /\ result.arg # <<>>
    /\ Cardinality(Headers(result.arg)) >= 2
    /\ \E i \in 1..Len(docs) :
          StartsWith(docs[i], SectionMark) /\ WithoutMark(docs[i]) # result.arg
    /\ stdout # <<>>

\* C9, as stated: set_logging raises no error, and a second call in a row
\* leaves the configuration and the root logger as the first left them
C9_SetLoggingIdempotent ==
    result.op = "set_logging" =>
        /\ result.st = "returned"
        /\ LET again == set_logging(base, logroot, fs)
           IN  /\ again.st = "returned"
               /\ again.self = base
               /\ again.root = logroot

\* C10, as stated: update never completes normally without returning a
\* configuration
C10_UpdateReturnsConfig ==
    (result.op = "update" /\ result.st = "returned") => IsConfig(result.val)

====
